---- MODULE Spec2Model ----
(***************************************************************************)
(* FinRack transaction synchronisation: the Celery sync task               *)
(* (app/services/transaction_sync.py), the provider client it calls        *)
(* (app/services/plaid_service.py), the categoriser                        *)
(* (app/services/categorization.py) and the account / transaction tables   *)
(* (app/models).                                                           *)
(*                                                                         *)
(* Amounts are in cents, confidences in thousandths (0.95 = 950).          *)
(***************************************************************************)
EXTENDS Integers, Sequences, FiniteSets, TLC

VARIABLES
    acct,     \* bank_accounts table: account id -> row
    store,    \* transactions table: the set of committed rows
    task,     \* Celery task instances of sync_account_transactions
    ml,       \* categorization_service.model: [loaded, out], out[text] what encode+cosine yields
    ghost     \* history used only by the properties

vars == <<acct, store, task, ml, ghost>>

None == "None"

----------------------------------------------------------------------------
(* Bounds of the model *)

\* sync task instances ever dispatched
MaxRuns == 2
\* records in one provider page (added + modified + removed together) when a
\* single run is reconciled
MaxBatch == 2
\* records in one provider page when runs are interleaved
MaxPage == 1
\* total_transactions the provider reports for a historical fetch
MaxHist == 3
\* records in one page of the historical fetch
HistPage == 2

Tasks == 1..MaxRuns
Accounts == {"a1", "a2"}
Pids == {"p1", "p2"}

----------------------------------------------------------------------------
(* Categorizer: app/services/categorization.py *)

CATEGORIES ==
    {"Food & Dining", "Shopping", "Transportation", "Bills & Utilities",
     "Entertainment", "Healthcare", "Travel", "Personal Care", "Education",
     "Income", "Transfer", "Uncategorized"}

\* The order in which `for category, data in self.CATEGORIES.items()` visits.
CategoryOrder ==
    <<"Food & Dining", "Shopping", "Transportation", "Bills & Utilities",
      "Entertainment", "Healthcare", "Travel", "Personal Care", "Education",
      "Income", "Transfer", "Uncategorized">>

\* f"{description} {merchant_name or ''}".lower().strip() on the descriptions
\* the provider delivers in this model.
TextOf(description, merchant_name) ==
    CASE description = "STARBUCKS COFFEE" /\ merchant_name = "Starbucks"
            -> "starbucks coffee starbucks"
      [] description = "PAYROLL DEPOSIT" /\ merchant_name = None
            -> "payroll deposit"
      [] description = "UBER GAS STATION" /\ merchant_name = None
            -> "uber gas station"
      [] description = "UBER LYFT TAXI GAS" /\ merchant_name = None
            -> "uber lyft taxi gas"
      [] description = "" /\ merchant_name = None
            -> ""
      [] OTHER -> "xyz"

Texts == {"starbucks coffee starbucks", "payroll deposit", "uber gas station",
          "uber lyft taxi gas", "", "xyz"}

\* sum(1 for keyword in data['keywords'] if keyword in text_lower)
KeywordMatches(text, category) ==
    CASE text = "starbucks coffee starbucks" /\ category = "Food & Dining" -> 1
      [] text = "payroll deposit" /\ category = "Income" -> 1
      [] text = "uber gas station" /\ category = "Transportation" -> 2
      [] text = "uber gas station" /\ category = "Bills & Utilities" -> 1
      [] text = "uber lyft taxi gas" /\ category = "Transportation" -> 4
      [] text = "uber lyft taxi gas" /\ category = "Bills & Utilities" -> 1
      [] OTHER -> 0

Min(a, b) == IF a < b THEN a ELSE b

RECURSIVE BestKeyword(_, _, _, _)
\* The loop of _rule_based_categorization over CATEGORIES, from position i.
BestKeyword(text, i, best_category, best_score) ==
    IF i > Len(CategoryOrder) THEN <<best_category, best_score>>
    ELSE LET category == CategoryOrder[i]
             matches == KeywordMatches(text, category)
             confidence == Min(900, 500 + matches * 100)
         IN  IF category # "Uncategorized" /\ matches > 0 /\ confidence > best_score
             THEN BestKeyword(text, i + 1, category, confidence)
             ELSE BestKeyword(text, i + 1, best_category, best_score)

rule_based_categorization(text, amount) ==
    IF amount # 0 /\ amount < 0
    THEN IF KeywordMatches(text, "Income") > 0
         THEN <<"Income", 900>> ELSE <<"Income", 700>>
    ELSE BestKeyword(text, 1, "Uncategorized", 0)

\* What a call yields when an exception leaves it.
Raised == <<"raise", 0>>

\* ml_based_categorization without its try/except: the fault leaves the call.
ml_based_categorization_NoTry(text) ==
    IF ml.out[text].fault THEN Raised
    ELSE <<ml.out[text].category, Min(950, (ml.out[text].similarity * 12) \div 10)>>

\* ml_based_categorization without min(0.95, ...).
ml_based_categorization_NoCap(text) ==
    IF ml.out[text].fault THEN <<"Uncategorized", 0>>
    ELSE <<ml.out[text].category, (ml.out[text].similarity * 12) \div 10>>

\* self.model.encode + cosine_similarity, then min(0.95, confidence * 1.2):
\* ml.out[text] is the best category and its similarity (thousandths), or a
\* fault of encode inside the try block, which yields ("Uncategorized", 0).
ml_based_categorization(text) ==
    IF ml.out[text].fault THEN <<"Uncategorized", 0>>
    ELSE <<ml.out[text].category, Min(950, (ml.out[text].similarity * 12) \div 10)>>

categorize_transaction(description, merchant_name, plaid_category, amount) ==
    IF plaid_category # None /\ plaid_category \in CATEGORIES
    THEN <<plaid_category, 950>>
    ELSE LET text == TextOf(description, merchant_name)
             rule == rule_based_categorization(text, amount)
         IN  IF rule[2] > 800 THEN rule
             ELSE IF ml.loaded
             THEN LET mlr == ml_based_categorization(text)
                  IN  IF mlr = Raised THEN Raised
                      ELSE IF rule[2] > 500 /\ mlr[2] > 500
                      THEN IF rule[1] = mlr[1]
                           THEN <<rule[1], (rule[2] + mlr[2]) \div 2>>
                           ELSE IF mlr[2] > rule[2] THEN mlr ELSE rule
                      ELSE IF mlr[2] > 500 THEN mlr
                      ELSE rule
             ELSE rule

\* Lines 210-229: None without a model and when encode raises.
generate_embedding(text) ==
    IF ~ml.loaded THEN [present |-> FALSE, of |-> ""]
    ELSE IF ml.out[text].fault THEN [present |-> FALSE, of |-> ""]
    ELSE [present |-> TRUE, of |-> text]

----------------------------------------------------------------------------
(* Provider records: PlaidService._parse_transaction *)

\* The provider account each external transaction id belongs to. One access
\* token (a Plaid item) covers both accounts.
PlaidAccountOf(pid) == IF pid = "p2" THEN "a2" ELSE "a1"

Versions == {1, 2}

\* What the provider reports for transaction pid in its version ver.
ParsedTransaction(pid, ver) ==
    [transaction_id |-> pid,
     account_id     |-> PlaidAccountOf(pid),
     amount         |-> IF ver = 1 THEN 475 ELSE 0 - 200000,
     date           |-> ver,
     name           |-> IF ver = 1 THEN "STARBUCKS COFFEE" ELSE "PAYROLL DEPOSIT",
     merchant_name  |-> IF ver = 1 THEN "Starbucks" ELSE None,
     category       |-> None]

Records == {ParsedTransaction(pid, ver) : pid \in Pids, ver \in Versions}

\* External ids of the 90 days a historical fetch covers.
HistPids == {"p1", "p3", "p4"}

\* What transactions_get can deliver for provider account a (account_ids filter).
HistRecords(a) == {ParsedTransaction(pid, 1) : pid \in {q \in HistPids : PlaidAccountOf(q) = a}}

\* One response page of transactions_get for provider account a.
HistPages(a) == UNION {[1..k -> HistRecords(a)] : k \in 0..HistPage}

Cursors == {"c2"}

EmptyPage ==
    [added |-> <<>>, modified |-> <<>>, removed |-> <<>>,
     next_cursor |-> None, has_more |-> FALSE]

\* The answers PlaidService.sync_transactions can return, n records at most.
SyncResults(n) ==
    { [added |-> a, modified |-> m, removed |-> r, next_cursor |-> c, has_more |-> h] :
        <<a, m, r, c, h>> \in
          UNION { [1..ka -> Records] \X [1..km -> Records] \X [1..kr -> Pids]
                    \X Cursors \X BOOLEAN :
                  <<ka, km, kr>> \in {x \in (0..n) \X (0..n) \X (0..n) :
                                        x[1] + x[2] + x[3] <= n} } }

----------------------------------------------------------------------------
(* Tables: app/models/accounts.py, app/models/transactions.py *)

SyncStatuses == {"pending", "syncing", "success", "error"}

\* A bank_accounts row. linked = FALSE: the row does not exist yet.
NewAccount ==
    [linked |-> TRUE, is_active |-> TRUE, sync_status |-> "pending",
     sync_error |-> None, last_synced_at |-> 0]

NoAccount ==
    [linked |-> FALSE, is_active |-> FALSE, sync_status |-> "pending",
     sync_error |-> None, last_synced_at |-> 0]

\* Transaction(...) as _process_added_transactions builds it.
NewTransaction(rid, account, txn_data, category, confidence, embedding) ==
    [id                   |-> rid,
     account_id           |-> account,
     plaid_transaction_id |-> txn_data.transaction_id,
     amount               |-> txn_data.amount,
     date                 |-> txn_data.date,
     name                 |-> txn_data.name,
     merchant_name        |-> txn_data.merchant_name,
     category             |-> category,
     category_confidence  |-> confidence,
     user_category        |-> None,
     embedding            |-> embedding]

\* UniqueViolation if the column had no unique index.
UniqueViolation_Off(rows, ins) == FALSE

\* Transaction.plaid_transaction_id is unique=True: the rows `ins` cannot be
\* inserted next to the rows `rows`.
UniqueViolation(rows, ins) ==
    \E r \in ins :
        \/ \E q \in rows : q.plaid_transaction_id = r.plaid_transaction_id
        \/ \E q \in ins : q # r /\ q.plaid_transaction_id = r.plaid_transaction_id

\* Transaction.final_category (models/transactions.py lines 97-100):
\* user_category or category or "Uncategorized".
final_category(row) ==
    IF row.user_category \notin {None, ""} THEN row.user_category
    ELSE IF row.category \notin {None, ""} THEN row.category
    ELSE "Uncategorized"

\* The ids a row can have: <<0, n>> for rows of earlier syncs, <<t, n>> for
\* the n-th row task t creates.
RowIds == (0..MaxRuns) \X (1..(MaxBatch + MaxHist + HistPage))

----------------------------------------------------------------------------
(* The task's database session (AsyncSessionLocal) *)

EmptySess == [ins |-> {}, upd |-> {}, del |-> {}]

\* SQLAlchemy's default: pending changes are flushed before each query, so a
\* query sees the rows this session added, changed or deleted.
Autoflush == TRUE

\* ApplyUpdate if the UPDATE also reset user_category.
ApplyUpdate_ResetOverride(row, u) ==
    [row EXCEPT !.amount = u.amount, !.date = u.date, !.name = u.name,
                !.merchant_name = u.merchant_name,
                !.category = u.category,
                !.category_confidence = u.category_confidence,
                !.user_category = None]

\* An UPDATE of the columns _process_modified_transactions assigned.
ApplyUpdate(row, u) ==
    IF u.recategorized
    THEN [row EXCEPT !.amount = u.amount, !.date = u.date, !.name = u.name,
                     !.merchant_name = u.merchant_name,
                     !.category = u.category,
                     !.category_confidence = u.category_confidence]
    ELSE [row EXCEPT !.amount = u.amount, !.date = u.date, !.name = u.name,
                     !.merchant_name = u.merchant_name]

Updated(rows, upd) ==
    { IF \E u \in upd : u.id = r.id
      THEN ApplyUpdate(r, CHOOSE u \in upd : u.id = r.id)
      ELSE r : r \in rows }

\* The table after this session's pending changes are written to it.
Flushed(rows, sess) ==
    { r \in Updated(rows, sess.upd) : r.id \notin sess.del } \cup sess.ins

\* The flush fails: a unique violation, or an UPDATE that matches no row.
FlushFails(rows, sess) ==
    \/ UniqueViolation(rows, sess.ins)
    \/ \E u \in sess.upd : \A r \in rows : r.id # u.id

\* The rows a query of the session sees.
Visible(rows, sess) ==
    IF Autoflush THEN Flushed(rows, sess) ELSE Updated(rows, sess.upd)

\* select(Transaction).where(plaid_transaction_id == pid)
Lookup(rows, sess, pid) ==
    { r \in Visible(rows, sess) : r.plaid_transaction_id = pid }


----------------------------------------------------------------------------
(* Reconciliation of one record: the loop bodies of transaction_sync.py *)

\* process_added_one without the `if existing_txn: continue` check.
process_added_one_NoSkip(rows, sess, account, txn_data, rid) ==
    LET cat == categorize_transaction(txn_data.name, txn_data.merchant_name,
                                      txn_data.category, txn_data.amount)
        embedding == generate_embedding(TextOf(txn_data.name, txn_data.merchant_name))
    IN  [sess |-> [sess EXCEPT !.ins = @ \cup
                     {NewTransaction(rid, account, txn_data, cat[1], cat[2], embedding)}],
         count |-> 1, raised |-> FALSE]

\* Body of the loop of _process_added_transactions: [sess, count, raised].
process_added_one(rows, sess, account, txn_data, rid) ==
    LET existing_txn == Lookup(rows, sess, txn_data.transaction_id)
        cat == categorize_transaction(txn_data.name, txn_data.merchant_name,
                                      txn_data.category, txn_data.amount)
        embedding == generate_embedding(TextOf(txn_data.name, txn_data.merchant_name))
    IN  IF Cardinality(existing_txn) > 1
        THEN [sess |-> sess, count |-> 0, raised |-> TRUE]
        ELSE IF existing_txn # {}
        THEN [sess |-> sess, count |-> 0, raised |-> FALSE]
        ELSE [sess |-> [sess EXCEPT !.ins = @ \cup
                          {NewTransaction(rid, account, txn_data, cat[1], cat[2], embedding)}],
              count |-> 1, raised |-> FALSE]

\* process_modified_one without the `if not transaction.user_category` test.
process_modified_one_Recat(rows, sess, txn_data) ==
    LET found == Lookup(rows, sess, txn_data.transaction_id)
    IN  IF found = {}
        THEN [sess |-> sess, count |-> 0, raised |-> FALSE]
        ELSE LET transaction == CHOOSE r \in found : TRUE
                 cat == categorize_transaction(txn_data.name, txn_data.merchant_name,
                                               txn_data.category, txn_data.amount)
                 u == [id |-> transaction.id, amount |-> txn_data.amount,
                       date |-> txn_data.date, name |-> txn_data.name,
                       merchant_name |-> txn_data.merchant_name,
                       recategorized |-> TRUE,
                       category |-> cat[1], category_confidence |-> cat[2]]
             IN  [sess |-> [sess EXCEPT !.upd = {v \in @ : v.id # u.id} \cup {u}],
                  count |-> 1, raised |-> FALSE]

\* Body of the loop of _process_modified_transactions: [sess, count, raised].
process_modified_one(rows, sess, txn_data) ==
    LET found == Lookup(rows, sess, txn_data.transaction_id)
    IN  IF Cardinality(found) > 1
        THEN [sess |-> sess, count |-> 0, raised |-> TRUE]
        ELSE IF found = {}
        THEN [sess |-> sess, count |-> 0, raised |-> FALSE]
        ELSE LET transaction == CHOOSE r \in found : TRUE
                 recat == transaction.user_category \in {None, ""}
                 cat == categorize_transaction(txn_data.name, txn_data.merchant_name,
                                               txn_data.category, txn_data.amount)
                 u == [id |-> transaction.id, amount |-> txn_data.amount,
                       date |-> txn_data.date, name |-> txn_data.name,
                       merchant_name |-> txn_data.merchant_name,
                       recategorized |-> recat,
                       category |-> IF recat THEN cat[1] ELSE transaction.category,
                       category_confidence |->
                           IF recat THEN cat[2] ELSE transaction.category_confidence]
             IN  [sess |-> IF transaction \in sess.ins
                           THEN [sess EXCEPT !.ins = (@ \ {transaction})
                                                      \cup {ApplyUpdate(transaction, u)}]
                           ELSE [sess EXCEPT !.upd = {v \in @ : v.id # u.id} \cup {u}],
                  count |-> 1, raised |-> FALSE]

\* process_removed_one with scalar_one() in place of scalar_one_or_none(): an
\* absent id raises.
process_removed_one_Strict(rows, sess, txn_id) ==
    LET found == Lookup(rows, sess, txn_id)
    IN  IF Cardinality(found) # 1
        THEN [sess |-> sess, count |-> 0, raised |-> TRUE]
        ELSE LET transaction == CHOOSE r \in found : TRUE
             IN  [sess |-> IF transaction \in sess.ins
                           THEN [sess EXCEPT !.ins = @ \ {transaction}]
                           ELSE [sess EXCEPT !.del = @ \cup {transaction.id}],
                  count |-> 1, raised |-> FALSE]

\* Body of the loop of _process_removed_transactions: [sess, count, raised].
process_removed_one(rows, sess, txn_id) ==
    LET found == Lookup(rows, sess, txn_id)
    IN  IF Cardinality(found) > 1
        THEN [sess |-> sess, count |-> 0, raised |-> TRUE]
        ELSE IF found = {}
        THEN [sess |-> sess, count |-> 0, raised |-> FALSE]
        ELSE LET transaction == CHOOSE r \in found : TRUE
             IN  [sess |-> IF transaction \in sess.ins
                           THEN [sess EXCEPT !.ins = @ \ {transaction}]
                           ELSE [sess EXCEPT !.del = @ \cup {transaction.id}],
                  count |-> 1, raised |-> FALSE]

----------------------------------------------------------------------------
(* The sync task: _sync_account_transactions_async *)

IdleTask ==
    [pc |-> "idle", account_id |-> None, seen_status |-> None, path |-> None,
     page |-> EmptyPage, req_cursor |-> None, total_transactions |-> 0, idx |-> 1,
     added_count |-> 0, modified_count |-> 0, removed_count |-> 0,
     sess |-> EmptySess, made |-> 0, error |-> None, result |-> None]

IdleTasks == {t \in Tasks : task[t].pc = "idle"}

\* sync_account_transactions.delay(account_id, user_id): the lowest free
\* task instance is queued for the account.
Delay(tk, t, a) == [tk EXCEPT ![t] = [IdleTask EXCEPT !.pc = "queued", !.account_id = a]]

\* POST /accounts/{account_id}/sync (api/accounts.py sync_account)
ManualSync(a) ==
    /\ acct[a].linked
    /\ IdleTasks # {}
    /\ task' = Delay(task, CHOOSE t \in IdleTasks : \A u \in IdleTasks : t <= u, a)
    /\ UNCHANGED <<acct, store, ml, ghost>>

\* POST /accounts/link (api/accounts.py): a new account row with
\* sync_status 'pending', and its first sync dispatched.
LinkAccount(a) ==
    /\ ~acct[a].linked
    /\ IdleTasks # {}
    /\ acct' = [acct EXCEPT ![a] = NewAccount]
    /\ task' = Delay(task, CHOOSE t \in IdleTasks : \A u \in IdleTasks : t <= u, a)
    /\ UNCHANGED <<store, ml, ghost>>

RECURSIVE DelayAll(_, _)
\* The dispatch loop of _sync_all_accounts_async over the accounts in as.
DelayAll(tk, as) ==
    IF as = {} THEN tk
    ELSE LET a == CHOOSE x \in as : TRUE
             free == {t \in Tasks : tk[t].pc = "idle"}
         IN  DelayAll(Delay(tk, CHOOSE t \in free : \A u \in free : t <= u, a), as \ {a})

ActiveAccounts == {a \in Accounts : acct[a].linked /\ acct[a].is_active}

\* sync_all_accounts, the beat schedule's task: one sync per active account.
SchedulerTick ==
    /\ ActiveAccounts # {}
    /\ Cardinality(IdleTasks) >= Cardinality(ActiveAccounts)
    /\ task' = DelayAll(task, ActiveAccounts)
    /\ UNCHANGED <<acct, store, ml, ghost>>

\* The order in which the query of line 299 lists the accounts.
AccountOrder == <<"a1", "a2">>

IsActive(a) == acct[a].linked /\ acct[a].is_active

\* The first idle task instance of tk, the one the next delay() queues.
FirstIdle(tk) ==
    LET free == {t \in Tasks : tk[t].pc = "idle"}
    IN  CHOOSE t \in free : \A u \in free : t <= u

RECURSIVE DispatchLoop_NoTry(_, _, _)
\* DispatchLoop without the try/except of lines 309-324: a failing delay()
\* leaves the loop for the handler at line 332, which returns no results.
DispatchLoop_NoTry(accounts, fails, st) ==
    IF accounts = <<>> THEN st
    ELSE LET account == Head(accounts)
         IN  IF account \in fails
             THEN [st EXCEPT !.results = <<>>]
             ELSE DispatchLoop_NoTry(Tail(accounts), fails,
                     [tk |-> Delay(st.tk, FirstIdle(st.tk), account),
                      results |-> Append(st.results,
                                         [account_id |-> account, dispatched |-> TRUE])])

RECURSIVE DispatchLoop(_, _, _)
\* Lines 306-324: for each listed account delay() is tried and one entry is
\* appended to results, a task id or the error; st is [tk, results].
DispatchLoop(accounts, fails, st) ==
    IF accounts = <<>> THEN st
    ELSE LET account == Head(accounts)
         IN  IF account \in fails
             THEN DispatchLoop(Tail(accounts), fails,
                     [st EXCEPT !.results =
                         Append(@, [account_id |-> account, dispatched |-> FALSE])])
             ELSE DispatchLoop(Tail(accounts), fails,
                     [tk |-> Delay(st.tk, FirstIdle(st.tk), account),
                      results |-> Append(st.results,
                                         [account_id |-> account, dispatched |-> TRUE])])

\* sync_all_accounts (lines 294-337) when delay() fails for the accounts in
\* fails (the broker refuses the message).
sync_all_accounts(fails) ==
    LET accounts == SelectSeq(AccountOrder, IsActive)
        listed == {accounts[i] : i \in 1..Len(accounts)}
    IN  /\ accounts # <<>>
        /\ fails \subseteq listed
        /\ Cardinality(IdleTasks) >= Cardinality(listed \ fails)
        /\ LET out == DispatchLoop(accounts, fails, [tk |-> task, results |-> <<>>])
           IN  /\ task' = out.tk
               /\ ghost' = [ghost EXCEPT !.tick = [listed |-> listed, results |-> out.results]]
        /\ UNCHANGED <<acct, store, ml>>

\* Lines 39-56: the account is loaded and marked 'syncing', whatever its status.
Start(t) ==
    /\ task[t].pc = "queued"
    /\ LET a == task[t].account_id
       IN  /\ acct' = [acct EXCEPT ![a].sync_status = "syncing"]
           /\ task' = [task EXCEPT ![t].pc = "fetch",
                                   ![t].seen_status = acct[a].sync_status]
    /\ UNCHANGED <<store, ml, ghost>>

\* RequestCursor if the next-cursor of the last fetched page were kept.
RequestCursor_Stored(a) == ghost.last_next[a]

\* The cursor an incremental fetch for account a is issued with:
\* sync_transactions(access_token=...) passes none, so the default None.
RequestCursor(a) == None

\* latest_transaction (lines 61-67): a row of the account exists.
\* HasTransactions without `where Transaction.account_id == account_id`.
HasTransactions_AnyAccount(a) == store # {}

HasTransactions(a) == \E r \in store : r.account_id = a

\* Lines 69-73: PlaidService.sync_transactions answers with one page.
FetchIncremental(t) ==
    /\ task[t].pc = "fetch"
    /\ HasTransactions(task[t].account_id)
    /\ \E sync_result \in SyncResults(MaxPage) :
         /\ task' = [task EXCEPT ![t].pc = "added", ![t].path = "incremental",
                                 ![t].page = sync_result, ![t].idx = 1,
                                 ![t].req_cursor = RequestCursor(task[t].account_id)]
         /\ ghost' = [ghost EXCEPT !.pre[t] = store,
                                   !.last_next[task[t].account_id] = sync_result.next_cursor]
    /\ UNCHANGED <<acct, store, ml>>

\* Records of one provider account: get_transactions filters by account_ids.
RecordsOfAccount(a) == {r \in Records : r.account_id = a}

\* Lines 85-95: PlaidService.get_transactions answers with the whole list.
FetchHistorical(t) ==
    /\ task[t].pc = "fetch"
    /\ ~HasTransactions(task[t].account_id)
    /\ \E k \in 0..MaxPage : \E transactions \in [1..k -> RecordsOfAccount(task[t].account_id)] :
         task' = [task EXCEPT ![t].pc = "added", ![t].path = "historical",
                              ![t].page = [EmptyPage EXCEPT !.added = transactions],
                              ![t].idx = 1]
    /\ ghost' = [ghost EXCEPT !.pre[t] = store]
    /\ UNCHANGED <<acct, store, ml>>

\* while len(transactions) < total_transactions (plaid_service.py line 238)
MorePages_FirstOnly(n, total_transactions) == FALSE

MorePages(n, total_transactions) == n < total_transactions

\* The task after a response of transactions_get was appended to `transactions`.
Collected(tk, t, transactions, total_transactions) ==
    [tk EXCEPT ![t].pc = IF MorePages(Len(transactions), total_transactions)
                         THEN "paging" ELSE "added",
               ![t].path = "historical",
               ![t].page = [EmptyPage EXCEPT !.added = transactions],
               ![t].total_transactions = total_transactions,
               ![t].idx = 1]

\* PlaidService.get_transactions, lines 223-237: the first transactions_get.
GetTransactions(t) ==
    /\ task[t].pc = "fetch"
    /\ ~HasTransactions(task[t].account_id)
    /\ \E response \in HistPages(task[t].account_id) : \E total \in 0..MaxHist :
         /\ task' = Collected(task, t, response, total)
         /\ ghost' = [ghost EXCEPT !.pre[t] = store, !.pages[t] = 1, !.hist[t] = response]
    /\ UNCHANGED <<acct, store, ml>>

\* Lines 238-246: one more transactions_get at offset len(transactions).
GetTransactionsNext(t) ==
    /\ task[t].pc = "paging"
    /\ \E response \in HistPages(task[t].account_id) :
         LET transactions == task[t].page.added \o response
         IN  /\ task' = Collected(task, t, transactions, task[t].total_transactions)
             /\ ghost' = [ghost EXCEPT !.pages[t] = 2, !.hist[t] = transactions]
    /\ UNCHANGED <<acct, store, ml>>

\* The provider's response holds, next to the well-formed records, one that
\* lacks a required field: _parse_transaction raises KeyError on it (lines
\* 303-307), which is no ApiException and leaves the provider call as it is.
FetchMalformed(t) ==
    /\ task[t].pc = "fetch"
    /\ task' = [task EXCEPT ![t].pc = "handler", ![t].error = "KeyError",
                            ![t].path = IF HasTransactions(task[t].account_id)
                                        THEN "incremental" ELSE "historical"]
    /\ \E k \in 1..MaxPage : \E wellformed \in [1..k -> RecordsOfAccount(task[t].account_id)] :
         ghost' = [ghost EXCEPT !.pre[t] = store,
                                !.raw[t] = [malformed |-> TRUE, wellformed |-> wellformed]]
    /\ UNCHANGED <<acct, store, ml>>

\* The provider refuses the credential (ITEM_LOGIN_REQUIRED, a revoked or
\* expired access token): an ApiException like any other.
FetchFaultPermanent(t) ==
    /\ task[t].pc = "fetch"
    /\ task' = [task EXCEPT ![t].pc = "handler",
                            ![t].error = "Plaid API error: ITEM_LOGIN_REQUIRED",
                            ![t].path = IF HasTransactions(task[t].account_id)
                                        THEN "incremental" ELSE "historical"]
    /\ ghost' = [ghost EXCEPT !.pre[t] = store]
    /\ UNCHANGED <<acct, store, ml>>

\* The provider call raises (ApiException re-raised as Exception).
FetchFault(t) ==
    /\ task[t].pc \in {"fetch", "paging"}
    /\ task' = [task EXCEPT ![t].pc = "handler", ![t].error = "Plaid API error",
                            ![t].path = IF HasTransactions(task[t].account_id)
                                        THEN "incremental" ELSE "historical"]
    /\ ghost' = [ghost EXCEPT !.pre[t] = store]
    /\ UNCHANGED <<acct, store, ml>>

\* The task after one loop body returned r; an exception goes to line 128.
AfterOne(tk, t, r, counter) ==
    IF r.raised
    THEN [tk EXCEPT ![t].pc = "handler", ![t].error = "MultipleResultsFound"]
    ELSE [tk EXCEPT ![t].sess = r.sess, ![t].idx = @ + 1,
                    ![t].added_count = IF counter = "added" THEN @ + r.count ELSE @,
                    ![t].modified_count = IF counter = "modified" THEN @ + r.count ELSE @,
                    ![t].removed_count = IF counter = "removed" THEN @ + r.count ELSE @,
                    ![t].made = IF counter = "added" THEN @ + r.count ELSE @]

AddedStep(t) ==
    /\ task[t].pc = "added"
    /\ task[t].idx <= Len(task[t].page.added)
    /\ task' = AfterOne(task, t,
                        process_added_one(store, task[t].sess, task[t].account_id,
                                          task[t].page.added[task[t].idx],
                                          <<t, task[t].made + 1>>),
                        "added")
    /\ UNCHANGED <<acct, store, ml, ghost>>

ModifiedStep(t) ==
    /\ task[t].pc = "modified"
    /\ task[t].idx <= Len(task[t].page.modified)
    /\ task' = AfterOne(task, t,
                        process_modified_one(store, task[t].sess,
                                             task[t].page.modified[task[t].idx]),
                        "modified")
    /\ UNCHANGED <<acct, store, ml, ghost>>

RemovedStep(t) ==
    /\ task[t].pc = "removed"
    /\ task[t].idx <= Len(task[t].page.removed)
    /\ task' = AfterOne(task, t,
                        process_removed_one(store, task[t].sess,
                                            task[t].page.removed[task[t].idx]),
                        "removed")
    /\ UNCHANGED <<acct, store, ml, ghost>>

\* NextPhase with the removed set applied before the modified set.
NextPhase_RemovedFirst(path, phase) ==
    CASE phase = "added" /\ path = "incremental" -> "removed"
      [] phase = "added" /\ path = "historical" -> "balance"
      [] phase = "removed" -> "modified"
      [] phase = "modified" -> "balance"

\* The task has returned: its lists are gone, the result and what the last
\* page said about next_cursor and has_more remain.
Returned(tk, t, result) ==
    [tk EXCEPT ![t].pc = "done", ![t].result = result, ![t].sess = EmptySess,
               ![t].idx = 1,
               ![t].page = [@ EXCEPT !.added = <<>>, !.modified = <<>>, !.removed = <<>>]]

\* The phase after `phase` in lines 75-101.
NextPhase(path, phase) ==
    CASE phase = "added" /\ path = "incremental" -> "modified"
      [] phase = "added" /\ path = "historical" -> "balance"
      [] phase = "modified" -> "removed"
      [] phase = "removed" -> "balance"

\* await db.commit() closing a phase (lines 212, 256, 279): the pending
\* changes become durable, or the flush fails and the transaction is rolled back.
CommitPhase(t, phase, list) ==
    /\ task[t].pc = phase
    /\ task[t].idx > Len(list)
    /\ IF FlushFails(store, task[t].sess)
       THEN /\ task' = [task EXCEPT ![t].pc = "handler", ![t].sess = EmptySess,
                                    ![t].error = "IntegrityError"]
            /\ UNCHANGED store
       ELSE /\ store' = Flushed(store, task[t].sess)
            /\ task' = [task EXCEPT ![t].pc = NextPhase(task[t].path, phase),
                                    ![t].sess = EmptySess, ![t].idx = 1]
    /\ UNCHANGED <<acct, ml, ghost>>

AddedCommit(t) == CommitPhase(t, "added", task[t].page.added)

ModifiedCommit(t) == CommitPhase(t, "modified", task[t].page.modified)

RemovedCommit(t) == CommitPhase(t, "removed", task[t].page.removed)

\* An exception raised inside a reconciliation loop that is no flush error
\* (celery's SoftTimeLimitExceeded, task_soft_time_limit): the session keeps its
\* pending changes and control goes to the handler at line 128.
ReconcileFault(t) ==
    /\ task[t].pc \in {"added", "modified", "removed"}
    /\ task' = [task EXCEPT ![t].pc = "handler", ![t].error = "SoftTimeLimitExceeded"]
    /\ UNCHANGED <<acct, store, ml, ghost>>

\* MarkSuccess without `account.sync_error = None`.
MarkSuccess_KeepError(account, now) ==
    [account EXCEPT !.sync_status = "success", !.last_synced_at = now]

\* Lines 109-111: the assignments to the account row on success.
MarkSuccess(account, now) ==
    [account EXCEPT !.sync_status = "success", !.last_synced_at = now,
                    !.sync_error = None]

\* Lines 103-126: balance refreshed, account marked 'success', committed.
\* datetime.utcnow() of run t is modelled as t.
Finish(t) ==
    /\ task[t].pc = "balance"
    /\ acct' = [acct EXCEPT ![task[t].account_id] = MarkSuccess(@, t)]
    /\ task' = Returned(task, t, "success")
    /\ UNCHANGED <<store, ml, ghost>>

\* plaid_service.get_balance raises (line 104).
BalanceFault(t) ==
    /\ task[t].pc = "balance"
    /\ task' = [task EXCEPT ![t].pc = "handler",
                            ![t].error = "Plaid API error: accounts_get"]
    /\ UNCHANGED <<acct, store, ml, ghost>>

\* Lines 128-138: the account is marked 'error' and the session committed,
\* pending changes of the interrupted phase included. If that commit fails,
\* lines 140-146 return the failure and nothing is written.
Handler(t) ==
    /\ task[t].pc = "handler"
    /\ IF FlushFails(store, task[t].sess)
       THEN UNCHANGED <<acct, store>>
       ELSE /\ store' = Flushed(store, task[t].sess)
            /\ acct' = [acct EXCEPT ![task[t].account_id].sync_status = "error",
                                    ![task[t].account_id].sync_error = task[t].error]
    /\ task' = Returned(task, t, "failure")
    /\ UNCHANGED <<ml, ghost>>


\* A second call of _process_added_transactions with the list it has just
\* committed, as when the provider delivers the same records again.
ReplayAdded(t) ==
    /\ task[t].pc \in {"modified", "balance"}
    /\ task[t].pc = NextPhase(task[t].path, "added")
    /\ task[t].idx = 1
    /\ ghost.replay[t] = "no"
    /\ task' = [task EXCEPT ![t].pc = "added", ![t].idx = 1, ![t].added_count = 0]
    /\ ghost' = [ghost EXCEPT !.replay[t] = "again", !.once[t] = store,
                              !.first_count[t] = task[t].added_count]
    /\ UNCHANGED <<acct, store, ml>>

----------------------------------------------------------------------------
(* The owner's edits: api/transactions.py *)

\* What a PATCH can carry as user_category; None leaves the column alone.
UserCategories == {"Shopping", ""}

\* PATCH /transactions/{transaction_id} with a user_category (update_transaction).
\* An unknown transaction_id is answered with 404.
UserEdit(transaction_id, user_category) ==
    /\ \E r \in store : r.id = transaction_id
    /\ store' = {IF r.id = transaction_id
                 THEN [r EXCEPT !.user_category = user_category] ELSE r : r \in store}
    /\ ghost' = [ghost EXCEPT !.user[transaction_id] = user_category]
    /\ UNCHANGED <<acct, task, ml>>

----------------------------------------------------------------------------
(* Initial states *)

\* What the sentence-transformer model can answer for a text.
MLAnswers ==
    {[fault |-> FALSE, category |-> "Shopping", similarity |-> 900],
     [fault |-> FALSE, category |-> "Food & Dining", similarity |-> 600]}

\* categorization_service: the model failed to load, or is loaded.
SyncModels ==
    {[loaded |-> FALSE, out |-> [x \in Texts |-> CHOOSE m \in MLAnswers : m.similarity = 900]],
     [loaded |-> TRUE, out |-> [x \in Texts |-> CHOOSE m \in MLAnswers : m.similarity = 900]]}

----------------------------------------------------------------------------
(* Receipts: app/services/ocr_service.py *)

MaxText == 4

\* A receipt text is a sequence of words separated by blanks, "<nl>" standing
\* for a line break. "X65" stands for a word of 65 characters.
Newline == "<nl>"
ReceiptTokens ==
    {"CAFE", "X65", "TOTAL", "Amount", "TOTAL:", "$12.50", "12.5",
     "2024-12-31", "31/12/202", Newline}

ReceiptTexts == UNION {[1..n -> ReceiptTokens] : n \in 0..MaxText}

TokLen(tok) ==
    CASE tok = "X65" -> 65
      [] tok = "2024-12-31" -> 10
      [] tok = "31/12/202" -> 9
      [] tok \in {"TOTAL", "TOTAL:", "Amount", "$12.50"} -> 6
      [] OTHER -> 4

\* The words at which (?:TOTAL|Amount) matches with a blank or a line break
\* next; in "TOTAL:" the colon stands between the label and \s*\$?[0-9].
IsLabel(tok) == tok \in {"TOTAL", "Amount"}

\* The words at whose start \$?([0-9]+(?:\.[0-9]{2})?) matches.
Capturable(tok) == tok \in {"$12.50", "12.5", "2024-12-31", "31/12/202"}

\* float(match_amount.group(1)) in hundredths: the digits and, only if two
\* digits follow the point, the decimals.
Captured(tok) ==
    CASE tok = "$12.50" -> 1250
      [] tok = "12.5" -> 1200
      [] tok = "2024-12-31" -> 202400
      [] OTHER -> 3100

RECURSIVE SkipSpace(_, _)
\* \s* from word i on: line breaks are white space too.
SkipSpace(text, i) ==
    IF i <= Len(text) /\ text[i] = Newline THEN SkipSpace(text, i + 1) ELSE i

RECURSIVE match_amount_Last(_, _)
\* match_amount taking the last match in place of the first.
match_amount_Last(text, i) ==
    LET n == Len(text) + 1 - i
        j == SkipSpace(text, n + 1)
    IN  IF i > Len(text) THEN <<>>
        ELSE IF IsLabel(text[n]) /\ j <= Len(text) /\ Capturable(text[j])
        THEN <<Captured(text[j])>>
        ELSE match_amount_Last(text, i + 1)

RECURSIVE match_amount(_, _)
\* Lines 66-71: re.search scans from the left for the first position where
\* the whole pattern matches.
match_amount(text, i) ==
    LET j == SkipSpace(text, i + 1)
    IN  IF i > Len(text) THEN <<>>
        ELSE IF IsLabel(text[i]) /\ j <= Len(text) /\ Capturable(text[j])
        THEN <<Captured(text[j])>>
        ELSE match_amount(text, i + 1)

\* The words in which (\d{4}-\d{2}-\d{2}|\d{2}/\d{2}/\d{2,4}) matches; the
\* year's \d{2,4} is greedy and takes three digits where there are three.
HasDate(tok) == tok \in {"2024-12-31", "31/12/202"}

RECURSIVE match_date(_, _)
\* Lines 73-76.
match_date(text, i) ==
    IF i > Len(text) THEN <<>>
    ELSE IF HasDate(text[i]) THEN <<text[i]>>
    ELSE match_date(text, i + 1)

RECURSIVE FirstLine(_, _)
\* text.strip().splitlines()[0]: the words from i up to the next line break.
FirstLine(text, i) ==
    IF i > Len(text) \/ text[i] = Newline THEN <<>>
    ELSE <<text[i]>> \o FirstLine(text, i + 1)

RECURSIVE LineLen(_)
\* len(first_line): the words and one blank between two of them.
LineLen(line) ==
    IF line = <<>> THEN 0
    ELSE IF Len(line) = 1 THEN TokLen(line[1])
    ELSE TokLen(line[1]) + 1 + LineLen(Tail(line))

MaxMerchantLen == 64

NoParse == [merchant |-> <<>>, total_amount |-> <<>>, date |-> <<>>]

\* Lines 62-84; an absent field (None) is the empty sequence.
parse_receipt_text(text) ==
    LET first_line == FirstLine(text, SkipSpace(text, 1))
    IN  [merchant |-> IF first_line # <<>> /\ LineLen(first_line) <= MaxMerchantLen
                      THEN <<first_line>> ELSE <<>>,
         total_amount |-> match_amount(text, 1),
         date |-> match_date(text, 1)]

\* Lines 87-98: process_receipt parses the text the OCR read.
process_receipt ==
    /\ ~ghost.receipt.called
    /\ ghost' = [ghost EXCEPT !.receipt.called = TRUE,
                              !.receipt.parsed = parse_receipt_text(ghost.receipt.text)]
    /\ UNCHANGED <<acct, store, task, ml>>

\* The transaction dictionaries batch_categorize is called with: name and
\* merchant_name, the provider's category, and the amount if the key is there.
CatNames ==
    {<<"STARBUCKS COFFEE", "Starbucks">>, <<"PAYROLL DEPOSIT", None>>,
     <<"UBER GAS STATION", None>>, <<"UBER LYFT TAXI GAS", None>>, <<"", None>>}

CatTxns ==
    [name : CatNames, category : {None, "Travel", "Service"},
     amount : [present : {TRUE}, value : {475, 0, 0 - 200000}]
                \cup {[present |-> FALSE, value |-> 0]}]

NoTxn ==
    [name |-> <<"", None>>, category |-> None, amount |-> [present |-> FALSE, value |-> 0]]

\* txn.get('amount'): None and 0 alike fail the test `if amount and amount < 0`.
AmountOf(txn) == IF txn.amount.present THEN txn.amount.value ELSE 0

\* Lines 231-256 on a list of one transaction dictionary.
batch_categorize(txn) ==
    /\ LET cat == categorize_transaction(txn.name[1], txn.name[2], txn.category, AmountOf(txn))
       IN  ghost' = [ghost EXCEPT !.cat = [called |-> TRUE, txn |-> txn, results |-> <<cat>>]]
    /\ UNCHANGED <<acct, store, task, ml>>

\* The semantic model's answers for a text: the best category and its cosine
\* similarity (thousandths, negative too), or encode raising.
CatAnswers ==
    MLAnswers \cup
    {[fault |-> TRUE, category |-> "Uncategorized", similarity |-> 0],
     [fault |-> FALSE, category |-> "Shopping", similarity |-> 0 - 100],
     [fault |-> FALSE, category |-> "Income", similarity |-> 300]}

CatModels == [loaded : BOOLEAN, out : {[x \in Texts |-> m] : m \in CatAnswers}]

NoGhost ==
    [pre |-> [t \in Tasks |-> {}], last_next |-> [a \in Accounts |-> None],
     replay |-> [t \in Tasks |-> "no"], once |-> [t \in Tasks |-> {}],
     first_count |-> [t \in Tasks |-> 0],
     pages |-> [t \in Tasks |-> 0], hist |-> [t \in Tasks |-> <<>>],
     raw |-> [t \in Tasks |-> [malformed |-> FALSE, wellformed |-> <<>>]],
     user |-> [i \in RowIds |-> None],
     tick |-> [listed |-> {}, results |-> <<>>],
     cat |-> [called |-> FALSE, txn |-> NoTxn, results |-> <<>>],
     receipt |-> [called |-> FALSE, text |-> <<>>, parsed |-> NoParse]]

\* The history at the start: the user categories the rows carry were set by
\* the owner.
InitGhost(rows) ==
    [NoGhost EXCEPT !.user = [i \in RowIds |->
                        IF \E r \in rows : r.id = i
                        THEN (CHOOSE r \in rows : r.id = i).user_category ELSE None]]

\* A row that earlier syncs and user edits left behind: inserted for account
\* a from version catver of the record, later modified to version ver; the
\* category is stale only under a user override.
StoredRow(n, a, pid, ver, catver, ucat) ==
    LET was == ParsedTransaction(pid, catver)
        now == ParsedTransaction(pid, ver)
        cat == categorize_transaction(was.name, was.merchant_name, was.category, was.amount)
    IN  [NewTransaction(<<0, n>>, a, now, cat[1], cat[2],
                        generate_embedding(TextOf(was.name, was.merchant_name)))
         EXCEPT !.user_category = ucat]

\* Account a1 was linked and synced before (one transaction, perhaps with a
\* user category); account a2 is not linked yet.
Init ==
    /\ ml \in SyncModels
    /\ acct = [a \in Accounts |->
                 IF a = "a1" THEN [NewAccount EXCEPT !.sync_status = "success"]
                 ELSE NoAccount]
    /\ \E ucat \in {None, "Travel"} :
         store = {StoredRow(1, "a1", "p1", 1, 1, ucat)}
    /\ task = [t \in Tasks |-> IdleTask]
    /\ ghost = InitGhost(store)

Next ==
    \/ \E a \in Accounts : ManualSync(a)
    \/ \E a \in Accounts : LinkAccount(a)
    \/ SchedulerTick
    \/ \E t \in Tasks : Start(t)
    \/ \E t \in Tasks : FetchIncremental(t)
    \/ \E t \in Tasks : FetchHistorical(t)
    \/ \E t \in Tasks : FetchFault(t)
    \/ \E t \in Tasks : AddedStep(t)
    \/ \E t \in Tasks : AddedCommit(t)
    \/ \E t \in Tasks : ModifiedStep(t)
    \/ \E t \in Tasks : ModifiedCommit(t)
    \/ \E t \in Tasks : RemovedStep(t)
    \/ \E t \in Tasks : RemovedCommit(t)
    \/ \E t \in Tasks : ReconcileFault(t)
    \/ \E t \in Tasks : Finish(t)
    \/ \E t \in Tasks : BalanceFault(t)
    \/ \E t \in Tasks : Handler(t)

Spec == Init /\ [][Next]_vars


----------------------------------------------------------------------------
(* One run reconciling one page, from any store earlier runs can leave *)

RowChoices(n, pid) ==
    { StoredRow(n, a, pid, ver, catver, ucat) :
        <<a, ver, catver, ucat>> \in
          {x \in Accounts \X Versions \X Versions \X {None, "Travel"} :
             x[4] = None => x[3] = x[2]} }

ReconStores ==
    { s1 \cup s2 :
        <<s1, s2>> \in ({{}} \cup {{r} : r \in RowChoices(1, "p1")})
                       \X ({{}} \cup {{r} : r \in RowChoices(2, "p2")}) }

\* The pages task 1 can hold after its fetch for account a1, given the store.
ReconPages(rows) ==
    IF \E r \in rows : r.account_id = "a1"
    THEN {p \in SyncResults(MaxBatch) : ~p.has_more}
    ELSE { [EmptyPage EXCEPT !.added = l] :
             l \in UNION {[1..k -> RecordsOfAccount("a1")] : k \in 0..MaxBatch} }

InitRecon ==
    /\ ml \in SyncModels
    /\ acct = [a \in Accounts |->
                 IF a = "a1" THEN [NewAccount EXCEPT !.sync_status = "syncing"]
                 ELSE [NewAccount EXCEPT !.sync_status = "success"]]
    /\ store \in ReconStores
    /\ \E page \in ReconPages(store) :
         /\ task = [t \in Tasks |->
                      IF t = 1
                      THEN [IdleTask EXCEPT
                              !.pc = "added", !.account_id = "a1",
                              !.seen_status = "success",
                              !.path = IF page.next_cursor = None
                                       THEN "historical" ELSE "incremental",
                              !.page = page]
                      ELSE IdleTask]
         /\ ghost = [InitGhost(store) EXCEPT !.pre[1] = store,
                                    !.last_next["a1"] = page.next_cursor]

NextRecon ==
    \/ \E t \in Tasks : AddedStep(t)
    \/ \E t \in Tasks : AddedCommit(t)
    \/ \E t \in Tasks : ReplayAdded(t)
    \/ \E t \in Tasks : ModifiedStep(t)
    \/ \E t \in Tasks : ModifiedCommit(t)
    \/ \E t \in Tasks : RemovedStep(t)
    \/ \E t \in Tasks : RemovedCommit(t)
    \/ \E t \in Tasks : ReconcileFault(t)
    \/ \E t \in Tasks : Finish(t)
    \/ \E t \in Tasks : BalanceFault(t)
    \/ \E t \in Tasks : Handler(t)

SpecRecon == InitRecon /\ [][NextRecon]_vars


----------------------------------------------------------------------------
(* One run from its dispatch to its return, nothing else running *)

\* A manual sync of account a1 has been queued; a1 was synced before, with
\* success or with an error, and has one transaction or none.
InitRun ==
    /\ ml \in SyncModels
    /\ \E before \in {[NewAccount EXCEPT !.sync_status = "success"],
                       [NewAccount EXCEPT !.sync_status = "error",
                                          !.sync_error = "Plaid API error"]} :
         acct = [a \in Accounts |-> IF a = "a1" THEN before ELSE NoAccount]
    /\ \E ucat \in {None, "Travel"} :
         store \in {{}, {StoredRow(1, "a1", "p1", 1, 1, ucat)}}
    /\ task = Delay([t \in Tasks |-> IdleTask], 1, "a1")
    /\ ghost = InitGhost(store)

NextRun ==
    \/ \E t \in Tasks : Start(t)
    \/ \E t \in Tasks : FetchIncremental(t)
    \/ \E t \in Tasks : FetchHistorical(t)
    \/ \E t \in Tasks : FetchMalformed(t)
    \/ \E t \in Tasks : FetchFault(t)
    \/ \E t \in Tasks : AddedStep(t)
    \/ \E t \in Tasks : AddedCommit(t)
    \/ \E t \in Tasks : ModifiedStep(t)
    \/ \E t \in Tasks : ModifiedCommit(t)
    \/ \E t \in Tasks : RemovedStep(t)
    \/ \E t \in Tasks : RemovedCommit(t)
    \/ \E t \in Tasks : ReconcileFault(t)
    \/ \E t \in Tasks : Finish(t)
    \/ \E t \in Tasks : BalanceFault(t)
    \/ \E t \in Tasks : Handler(t)

SpecRun == InitRun /\ [][NextRun]_vars

----------------------------------------------------------------------------
(* One run from its dispatch to its return, and the owner's edits at any time *)

NextEdit ==
    \/ \E i \in RowIds : \E c \in UserCategories : UserEdit(i, c)
    \/ \E t \in Tasks : Start(t)
    \/ \E t \in Tasks : FetchIncremental(t)
    \/ \E t \in Tasks : FetchHistorical(t)
    \/ \E t \in Tasks : FetchFault(t)
    \/ \E t \in Tasks : AddedStep(t)
    \/ \E t \in Tasks : AddedCommit(t)
    \/ \E t \in Tasks : ModifiedStep(t)
    \/ \E t \in Tasks : ModifiedCommit(t)
    \/ \E t \in Tasks : RemovedStep(t)
    \/ \E t \in Tasks : RemovedCommit(t)
    \/ \E t \in Tasks : ReconcileFault(t)
    \/ \E t \in Tasks : Finish(t)
    \/ \E t \in Tasks : BalanceFault(t)
    \/ \E t \in Tasks : Handler(t)

SpecEdit == InitRun /\ [][NextEdit]_vars

----------------------------------------------------------------------------
(* The beat schedule: sync_all_accounts ticks and the runs they dispatch *)

\* Account a1 is linked and active, synced before or left 'syncing' by a run
\* that never recorded its end; a2 is not linked, active, or unlinked again.
InitTick ==
    /\ ml \in {m \in SyncModels : ~m.loaded}
    /\ \E s1 \in {"success", "syncing"} :
       \E other \in {NoAccount, [NewAccount EXCEPT !.sync_status = "success"],
                      [NewAccount EXCEPT !.sync_status = "success", !.is_active = FALSE]} :
         acct = [a \in Accounts |->
                   IF a = "a1" THEN [NewAccount EXCEPT !.sync_status = s1] ELSE other]
    /\ store = {StoredRow(1, "a1", "p1", 1, 1, None)}
    /\ task = [t \in Tasks |-> IdleTask]
    /\ ghost = InitGhost(store)

NextTick ==
    \/ \E fails \in SUBSET Accounts : sync_all_accounts(fails)
    \/ \E t \in Tasks : Start(t)
    \/ \E t \in Tasks : FetchIncremental(t)
    \/ \E t \in Tasks : FetchHistorical(t)
    \/ \E t \in Tasks : FetchFault(t)
    \/ \E t \in Tasks : FetchFaultPermanent(t)
    \/ \E t \in Tasks : AddedStep(t)
    \/ \E t \in Tasks : AddedCommit(t)
    \/ \E t \in Tasks : ModifiedStep(t)
    \/ \E t \in Tasks : ModifiedCommit(t)
    \/ \E t \in Tasks : RemovedStep(t)
    \/ \E t \in Tasks : RemovedCommit(t)
    \/ \E t \in Tasks : ReconcileFault(t)
    \/ \E t \in Tasks : Finish(t)
    \/ \E t \in Tasks : BalanceFault(t)
    \/ \E t \in Tasks : Handler(t)

SpecTick == InitTick /\ [][NextTick]_vars

----------------------------------------------------------------------------
(* Classification: the categorizer called directly and by a first sync *)

InitCat ==
    /\ ml \in CatModels
    /\ acct = [a \in Accounts |-> IF a = "a1" THEN NewAccount ELSE NoAccount]
    /\ store = {}
    /\ task = Delay([t \in Tasks |-> IdleTask], 1, "a1")
    /\ ghost = InitGhost(store)

NextCat ==
    \/ \E txn \in CatTxns : batch_categorize(txn)
    \/ \E t \in Tasks : Start(t)
    \/ \E t \in Tasks : FetchHistorical(t)
    \/ \E t \in Tasks : AddedStep(t)
    \/ \E t \in Tasks : AddedCommit(t)
    \/ \E t \in Tasks : Finish(t)

SpecCat == InitCat /\ [][NextCat]_vars

----------------------------------------------------------------------------
(* Receipts: any text the OCR may read, parsed once *)

InitReceipt ==
    /\ ml \in {m \in SyncModels : ~m.loaded}
    /\ acct = [a \in Accounts |-> NoAccount]
    /\ store = {}
    /\ task = [t \in Tasks |-> IdleTask]
    /\ \E text \in ReceiptTexts : ghost = [NoGhost EXCEPT !.receipt.text = text]

NextReceipt == process_receipt

SpecReceipt == InitReceipt /\ [][NextReceipt]_vars

----------------------------------------------------------------------------
(* The first sync of an account, the historical fetch page by page *)

\* Account a1 has just been linked and its first sync is queued; account a2
\* of the same item was synced before and may hold a row for one of the ids.
InitHist ==
    /\ ml \in SyncModels
    /\ acct = [a \in Accounts |->
                 IF a = "a1" THEN NewAccount
                 ELSE [NewAccount EXCEPT !.sync_status = "success"]]
    /\ store \in {{}, {StoredRow(1, "a2", "p2", 1, 1, None)},
                  {StoredRow(1, "a2", "p3", 1, 1, None)}}
    /\ task = Delay([t \in Tasks |-> IdleTask], 1, "a1")
    /\ ghost = InitGhost(store)

NextHist ==
    \/ \E t \in Tasks : Start(t)
    \/ \E t \in Tasks : GetTransactions(t)
    \/ \E t \in Tasks : GetTransactionsNext(t)
    \/ \E t \in Tasks : FetchFault(t)
    \/ \E t \in Tasks : AddedStep(t)
    \/ \E t \in Tasks : AddedCommit(t)
    \/ \E t \in Tasks : ReconcileFault(t)
    \/ \E t \in Tasks : Finish(t)
    \/ \E t \in Tasks : BalanceFault(t)
    \/ \E t \in Tasks : Handler(t)

SpecHist == InitHist /\ [][NextHist]_vars

----------------------------------------------------------------------------
(* Properties *)

InFlight == {"fetch", "paging", "added", "modified", "removed", "balance", "handler"}

ReconcileErrors == {"SoftTimeLimitExceeded", "IntegrityError", "MultipleResultsFound"}

PidsOf(list) == {list[i].transaction_id : i \in 1..Len(list)}

RemovedPids(list) == {list[i] : i \in 1..Len(list)}

RowsWith(rows, pid) == {r \in rows : r.plaid_transaction_id = pid}

\* C1: a sync requested while the account's sync_status is 'syncing' is
\* rejected: it performs no provider fetch and no reconciliation.
C1_SyncingRequestRejected ==
    \A t \in Tasks : task[t].seen_status = "syncing" => task[t].path = None

\* C2: at most one sync run per account is in flight at any time.
C2_OneRunPerAccount ==
    \A t, u \in Tasks :
        (t # u /\ task[t].pc \in InFlight /\ task[u].pc \in InFlight)
            => task[t].account_id # task[u].account_id

\* C3: while and after the same 'added' list is processed a second time, no
\* row is inserted, the table is what the first application left, and the
\* added count is 0.
C3_AddedIdempotent ==
    \A t \in Tasks :
        (ghost.replay[t] = "again" /\ task[t].pc \in {"added", "modified", "balance"}
           /\ (task[t].pc # "added" => task[t].idx = 1 /\ task[t].pc = NextPhase(task[t].path, "added")))
            => /\ store = ghost.once[t]
               /\ task[t].sess.ins = {}
               /\ task[t].added_count = 0

\* C3 witness: the second application is committed, the first had inserted rows.
C3_Witness ==
    \E t \in Tasks :
        /\ ghost.replay[t] = "again" /\ task[t].pc = "modified" /\ task[t].idx = 1
        /\ ghost.first_count[t] > 0 /\ task[t].added_count = 0
        /\ store = ghost.once[t]

HasDuplicate(list) ==
    \E i, j \in 1..Len(list) : i < j /\ list[i].transaction_id = list[j].transaction_id

DuplicatePids(list) ==
    {list[i].transaction_id : i \in {k \in 1..Len(list) :
        \E j \in 1..Len(list) : j # k /\ list[j].transaction_id = list[k].transaction_id}}

LastWith(list, pid) ==
    list[CHOOSE i \in 1..Len(list) :
            /\ list[i].transaction_id = pid
            /\ \A j \in 1..Len(list) : list[j].transaction_id = pid => j <= i]

\* C5: once the 'modified' list is committed, a row that had a user category
\* keeps its category and confidence and has the amount, date and name of the
\* modified record.
C5_OverridePreserved ==
    \A t \in Tasks :
        (task[t].pc = "removed" /\ task[t].path = "incremental")
            => \A r0 \in ghost.pre[t] :
                 (r0.user_category \notin {None, ""}
                    /\ r0.plaid_transaction_id \in PidsOf(task[t].page.modified))
                  => \E r \in store :
                       LET m == LastWith(task[t].page.modified, r0.plaid_transaction_id)
                       IN  /\ r.id = r0.id
                           /\ r.category = r0.category
                           /\ r.category_confidence = r0.category_confidence
                           /\ r.user_category = r0.user_category
                           /\ r.amount = m.amount
                           /\ r.date = m.date
                           /\ r.name = m.name

\* C5 witness: a row with a user category got a new amount from a modified record.
C5_Witness ==
    \E t \in Tasks :
        /\ task[t].pc = "removed" /\ task[t].modified_count > 0
        /\ \E r0 \in ghost.pre[t] : \E r \in store :
              /\ r.id = r0.id /\ r0.user_category = "Travel"
              /\ r0.plaid_transaction_id \in PidsOf(task[t].page.modified)
              /\ r.amount # r0.amount /\ r.category = r0.category

\* C6: the sets are applied in the order added, modified, removed, and an id
\* both in 'modified' and in 'removed' has no row once the page is reconciled.
C6_RemovalWins ==
    \A t \in Tasks :
        /\ task[t].pc = "added" => task[t].modified_count = 0 /\ task[t].removed_count = 0
        /\ task[t].pc = "modified" => task[t].removed_count = 0
        /\ (task[t].pc = "balance" /\ task[t].path = "incremental")
             => \A pid \in PidsOf(task[t].page.modified) \cap RemovedPids(task[t].page.removed) :
                   RowsWith(store, pid) = {}

\* C6 witness: a stored row was modified and then removed by the same page.
C6_Witness ==
    \E t \in Tasks :
        /\ task[t].pc = "balance" /\ task[t].path = "incremental"
        /\ task[t].modified_count > 0 /\ task[t].removed_count > 0
        /\ \E pid \in PidsOf(task[t].page.modified) \cap RemovedPids(task[t].page.removed) :
              RowsWith(ghost.pre[t], pid) # {} /\ RowsWith(store, pid) = {}

\* C7: a fault while a page is reconciled leaves the durable table as it was
\* before the page.
C7_BatchAtomic ==
    \A t \in Tasks :
        (task[t].pc = "done" /\ task[t].error \in ReconcileErrors)
            => store = ghost.pre[t]

C9_CursorAdvances ==
    \A t \in Tasks :
        (task[t].pc = "done" /\ task[t].result = "success" /\ task[t].path = "incremental")
            => RequestCursor(task[t].account_id) = task[t].page.next_cursor

\* C10: a run does not report success while the last page it processed had
\* has_more = true.
C10_AllPagesFetched ==
    \A t \in Tasks :
        (task[t].pc = "done" /\ task[t].result = "success")
            => ~task[t].page.has_more

RowsOf(rows, a) == {r \in rows : r.account_id = a}

C12_RunLeavesSyncing ==
    [][\A t \in Tasks :
         (task[t].pc # "done" /\ task'[t].pc = "done"
            /\ \A u \in Tasks :
                 (u # t /\ task'[u].account_id = task[t].account_id)
                     => task'[u].pc \notin InFlight)
             => acct'[task[t].account_id].sync_status # "syncing"]_vars

\* C13: after a run that failed in its fetch or its reconciliation, the account
\* is 'error' with the fault's message, last_synced_at is what it was, the
\* task's result is a failure, and no other account's status, error or
\* transaction rows differ from what they were before the page.
C13_FaultIsolated ==
    \A t \in Tasks :
        (task[t].pc = "done" /\ task[t].error \in ReconcileErrors \cup {"Plaid API error"})
            => LET a == task[t].account_id
               IN  /\ acct[a].sync_status = "error"
                   /\ acct[a].sync_error = task[t].error
                   /\ acct[a].last_synced_at = 0
                   /\ task[t].result = "failure"
                   /\ \A b \in Accounts \ {a} :
                         /\ acct[b].sync_status = "success" /\ acct[b].sync_error = None
                         /\ RowsOf(store, b) = RowsOf(ghost.pre[t], b)

C15_BalanceFireAndForget ==
    \A t \in Tasks :
        (task[t].pc = "done" /\ task[t].error = "Plaid API error: accounts_get")
            => /\ acct[task[t].account_id].sync_status = "success"
               /\ acct[task[t].account_id].sync_error # task[t].error

\* C16: once the 'modified' list is committed, every external id in it has a
\* row, also an id that had none before (implicit add), with the amount, date
\* and name of its last modified record.
C16_ModifiedImplicitAdd ==
    \A t \in Tasks :
        (task[t].pc = "removed" /\ task[t].path = "incremental")
            => \A pid \in PidsOf(task[t].page.modified) :
                 \E r \in RowsWith(store, pid) :
                    LET m == LastWith(task[t].page.modified, pid)
                    IN  r.amount = m.amount /\ r.date = m.date /\ r.name = m.name

\* The removed ids of task t's page that have no row when the removed set is
\* applied: none before the page and none added by it.
AbsentRemoved(t) ==
    {pid \in RemovedPids(task[t].page.removed) :
        RowsWith(ghost.pre[t], pid) = {} /\ pid \notin PidsOf(task[t].page.added)}

\* C17: a page whose removed set names an id without a row raises no lookup or
\* integrity fault, and once the removed set is committed the removed count is
\* the number of ids that did have a row, those rows are gone, and every row
\* whose id is not in the set is still there.
C17_RemoveAbsentNoop ==
    \A t \in Tasks :
        (task[t].path = "incremental" /\ AbsentRemoved(t) # {})
            => /\ task[t].error \notin {"MultipleResultsFound", "IntegrityError"}
               /\ task[t].pc = "balance"
                    => /\ task[t].removed_count =
                            Cardinality(RemovedPids(task[t].page.removed) \ AbsentRemoved(t))
                       /\ \A pid \in RemovedPids(task[t].page.removed) : RowsWith(store, pid) = {}
                       /\ \A r0 \in ghost.pre[t] :
                             r0.plaid_transaction_id \notin RemovedPids(task[t].page.removed)
                                 => \E r \in store : r.id = r0.id

\* C17 witness: the removed set named an absent id and then a stored one; the
\* stored one was deleted and counted, the absent one was not.
C17_Witness ==
    \E t \in Tasks :
        /\ task[t].pc = "balance" /\ task[t].path = "incremental"
        /\ Len(task[t].page.removed) = 2
        /\ task[t].page.removed[1] \in AbsentRemoved(t)
        /\ RowsWith(ghost.pre[t], task[t].page.removed[2]) # {}
        /\ RowsWith(store, task[t].page.removed[2]) = {}
        /\ task[t].removed_count = 1

\* C18: a run whose provider response held a malformed record next to
\* well-formed ones does not end in failure because of it, the account is not
\* 'error', and every well-formed record of the response has its row.
C18_MalformedSkipped ==
    \A t \in Tasks :
        (task[t].pc = "done" /\ ghost.raw[t].malformed)
            => /\ task[t].error # "KeyError"
               /\ acct[task[t].account_id].sync_status # "error"
               /\ \A pid \in PidsOf(ghost.raw[t].wellformed) : RowsWith(store, pid) # {}

\* C19: in every reachable state each external transaction id has at most one
\* row in the whole transactions table, whatever runs are interleaved.
C19_ExternalIdUnique ==
    \A pid \in Pids \cup HistPids : Cardinality(RowsWith(store, pid)) <= 1

\* C19 witness: two runs tried to insert the same external id; one committed
\* its row, the other's commit was refused.
C19_Witness ==
    \E t, u \in Tasks : \E r \in store :
        /\ t # u
        /\ task[t].pc = "done" /\ task[t].error = "IntegrityError" /\ task[t].made > 0
        /\ r.id[1] = u
        /\ Cardinality(RowsWith(store, r.plaid_transaction_id)) = 1

\* C20: every stored row's user_category is the value the owner set last
\* (null if never), whatever sync runs did to the row, and when an override is
\* set the row's final category is that override.
C20_OverrideNeverWritten ==
    \A r \in store :
        /\ r.user_category = ghost.user[r.id]
        /\ ghost.user[r.id] \notin {None, ""} => final_category(r) = ghost.user[r.id]

\* C20 witness: the owner set 'Shopping' on a row, a later sync applied a
\* modified record to it (new date, category left alone), and the override stands.
C20_Witness ==
    \E t \in Tasks : \E r \in store :
        /\ task[t].pc = "done" /\ task[t].result = "success" /\ task[t].modified_count > 0
        /\ r.user_category = "Shopping" /\ ghost.user[r.id] = "Shopping"
        /\ r.date = 2 /\ r.category # "Income"
        /\ final_category(r) = "Shopping"

\* The accounts for which this step queues a run.
Dispatched == {task'[t].account_id : t \in {u \in Tasks : task[u].pc = "idle" /\ task'[u].pc = "queued"}}

\* C21: a scheduler tick dispatches a run for exactly the active accounts
\* whose sync_status is not 'syncing' at the time of the tick.
C21_TickSkipsSyncing ==
    [][Dispatched # {}
         => Dispatched = {a \in Accounts : IsActive(a) /\ acct[a].sync_status # "syncing"}]_vars

\* C22: a tick records one result entry per listed account, in spite of
\* failed dispatches, and every entry that reports a dispatch has its run
\* queued by the tick.
C22_TickIsolatesFailures ==
    [][(ghost'.tick # ghost.tick \/ Dispatched # {})
         => LET tick == ghost'.tick
            IN  /\ Len(tick.results) = Cardinality(tick.listed)
                /\ \A a \in tick.listed :
                      \E i \in 1..Len(tick.results) :
                         /\ tick.results[i].account_id = a
                         /\ tick.results[i].dispatched <=> a \in Dispatched]_vars

\* C22 witness: the dispatch for a1 failed and the run for a2 is queued by the
\* same tick.
C22_Witness ==
    /\ ghost.tick.results = <<[account_id |-> "a1", dispatched |-> FALSE],
                              [account_id |-> "a2", dispatched |-> TRUE]>>
    /\ \E t \in Tasks : task[t].pc = "queued" /\ task[t].account_id = "a2"
    /\ \A t \in Tasks : task[t].account_id # "a1"

\* C23: no scheduler tick dispatches a run for an account whose last sync
\* failed with a permanent provider error.
C23_PermanentNotRetried ==
    [][\A a \in Dispatched :
          acct[a].sync_error # "Plaid API error: ITEM_LOGIN_REQUIRED"]_vars

\* The call recorded in ghost.cat: its text, the keyword stage's pair and
\* whether the call reaches the semantic stage and encode raises there.
CatText == TextOf(ghost.cat.txn.name[1], ghost.cat.txn.name[2])
CatRule == rule_based_categorization(CatText, AmountOf(ghost.cat.txn))
CatResult == ghost.cat.results[1]
SemanticFault ==
    /\ ghost.cat.called
    /\ ghost.cat.txn.category \notin CATEGORIES
    /\ CatRule[2] <= 800
    /\ ml.loaded
    /\ ml.out[CatText].fault

\* C24 as stated: whenever a fault occurs inside the semantic stage,
\* categorize_transaction returns ('Uncategorized', 0).
C24_FaultGivesUncategorized ==
    SemanticFault => CatResult = <<"Uncategorized", 0>>

\* C24 amended: categorize_transaction never raises and returns a pair of a
\* category and a confidence; on a fault inside the semantic stage it returns
\* the keyword stage's pair; every stored row has a category, and its
\* embedding is absent when there is no model or encode raises.
C24_NeverRaises ==
    /\ ghost.cat.called =>
          /\ CatResult # Raised
          /\ CatResult[1] \in CATEGORIES
          /\ SemanticFault => CatResult = CatRule
    /\ \A r \in store :
          /\ r.category \in CATEGORIES
          /\ (~ml.loaded \/ ml.out[TextOf(r.name, r.merchant_name)].fault)
                => ~r.embedding.present

\* C24 witness: encode raises in the semantic stage of a call whose keyword
\* stage found one hit, and the sync has stored a row without an embedding.
C24_Witness ==
    /\ SemanticFault
    /\ CatResult = <<"Food & Dining", 600>>
    /\ \E r \in store : r.id[1] # 0 /\ ~r.embedding.present

\* C25: a call with a negative amount returns 'Income' with a confidence
\* above the fast-path threshold, whatever the text, the provider's category
\* and the model.
C25_NegativeIsIncome ==
    (ghost.cat.called /\ AmountOf(ghost.cat.txn) < 0)
        => (CatResult[1] = "Income" /\ CatResult[2] > 800)

\* The keyword loop's best hit count for a text.
MaxHits(text) ==
    LET hits == {KeywordMatches(text, c) : c \in CATEGORIES \ {"Uncategorized"}}
    IN  CHOOSE h \in hits : \A g \in hits : g <= h

\* C26: every confidence categorize_transaction returns lies in [0, 1]
\* (thousandths); the keyword loop yields 0 without a hit and
\* min(0.9, 0.5 + 0.1 * hits) otherwise; the semantic stage stays at or
\* below 0.95.
C26_ConfidenceInRange ==
    /\ ghost.cat.called =>
          /\ CatResult[2] >= 0 /\ CatResult[2] <= 1000
          /\ AmountOf(ghost.cat.txn) >= 0 =>
                CatRule[2] = IF MaxHits(CatText) = 0 THEN 0
                             ELSE Min(900, 500 + 100 * MaxHits(CatText))
          /\ ml_based_categorization(CatText)[2] <= 950
    /\ \A r \in store : r.category_confidence >= 0 /\ r.category_confidence <= 1000

\* C26 witness: both stages agree and their confidences are averaged.
C26_Witness ==
    /\ ghost.cat.called
    /\ ml.loaded
    /\ CatRule = <<"Food & Dining", 600>>
    /\ ml_based_categorization(CatText) = <<"Food & Dining", 720>>
    /\ CatResult = <<"Food & Dining", 660>>

\* The reading of a receipt text the claim goes by: a label is any word that
\* holds 'TOTAL' or 'Amount', a number is an amount as printed.
HoldsLabel(tok) == tok \in {"TOTAL", "Amount", "TOTAL:"}
IsNumber(tok) == tok \in {"$12.50", "12.5"}
NumberOf(tok) == 1250
DateOf(tok) == IF tok = "31/12/202" THEN "31/12/20" ELSE tok
ReceiptText == ghost.receipt.text
Parsed == ghost.receipt.parsed
Positions(P(_)) == {i \in 1..Len(ReceiptText) : P(ReceiptText[i])}
First(S) == CHOOSE i \in S : \A j \in S : i <= j

\* The merchant clause: the first line of the stripped text if it is at most
\* 64 characters long.
MerchantClause ==
    LET start == SkipSpace(ReceiptText, 1)
        stop == First({i \in start..(Len(ReceiptText) + 1) :
                         i = Len(ReceiptText) + 1 \/ ReceiptText[i] = Newline})
        line == SubSeq(ReceiptText, start, stop - 1)
    IN  Parsed.merchant = IF line # <<>> /\ LineLen(line) <= 64 THEN <<line>> ELSE <<>>

LabelledAmounts ==
    {i \in Positions(IsLabel) :
       \E j \in (i + 1)..Len(ReceiptText) :
          /\ Capturable(ReceiptText[j])
          /\ \A k \in (i + 1)..(j - 1) : ReceiptText[k] = Newline}

C28_PaginationTerminates ==
    [][\A t \in Tasks :
         /\ (task[t].pc = "paging" /\ task'[t].pc = "paging")
               => Len(task'[t].page.added) > Len(task[t].page.added)
         /\ (task[t].pc \in {"fetch", "paging"} /\ task'[t].pc = "added")
               => Len(task'[t].page.added) = task'[t].total_transactions]_vars

\* C29: a run for account a leaves the rows of every other account as they
\* were before its page, and every row it has inserted is owned by the
\* account its provider record names.
C29_RunTouchesOwnRows ==
    \A t \in Tasks :
        task[t].pc \in {"added", "modified", "removed", "balance", "done"}
            => LET a == task[t].account_id
               IN  /\ \A b \in Accounts \ {a} :
                         RowsOf(store, b) = RowsOf(ghost.pre[t], b)
                   /\ \A r \in store \ ghost.pre[t] :
                         r.id[1] = t => r.account_id = PlaidAccountOf(r.plaid_transaction_id)

\* C30: a run has taken the incremental path exactly if a row owned by its
\* account was stored when it chose, and the historical path otherwise.
C30_PathByStoredRows ==
    \A t \in Tasks :
        task[t].path # None
            => (task[t].path = "incremental"
                  <=> RowsOf(ghost.pre[t], task[t].account_id) # {})

\* C30 witness: the first sync of a2 took the historical path and succeeded
\* with rows stored, and a later sync of a2 takes the incremental path.
C30_Witness ==
    \E t, u \in Tasks :
        /\ task[t].account_id = "a2" /\ task[u].account_id = "a2"
        /\ task[t].pc = "done" /\ task[t].result = "success"
        /\ task[t].path = "historical" /\ task[t].added_count > 0
        /\ task[u].path = "incremental"
        /\ RowsOf(ghost.pre[u], "a2") # {}

====
